---- MODULE Spec2Model ----
(***************************************************************************)
(* Proof-of-work difficulty core of src/pow.cpp: next-work computation     *)
(* (legacy periodic retarget and weighted moving average), the difficulty  *)
(* transition validator and the hash-versus-target check.                  *)
(*                                                                         *)
(* 256-bit values are little-endian sequences of WIDTH bytes (a[1] is the  *)
(* least significant byte).  A compact "bits" word is the record           *)
(* [exp, mant]: exp is the top byte (nCompact >> 24), mant the low three   *)
(* bytes (nCompact & 0x00ffffff, sign bit 0x00800000 included).            *)
(***************************************************************************)
EXTENDS Integers, Sequences, FiniteSets, TLC

\* ------------------------------------------------------------------------
\* arith_uint256: fixed-width unsigned arithmetic
\* ------------------------------------------------------------------------
WIDTH == 32

Zero256 == [i \in 1..WIDTH |-> 0]

\* arith_uint256(uint64_t b), for 0 <= n < 2^31
FromInt(n) == [i \in 1..WIDTH |-> IF i <= 4 THEN (n \div (256^(i-1))) % 256 ELSE 0]

RECURSIVE CompareFrom(_, _, _)
CompareFrom(a, b, i) ==
    IF i = 0 THEN 0
    ELSE IF a[i] < b[i] THEN -1
    ELSE IF a[i] > b[i] THEN 1
    ELSE CompareFrom(a, b, i - 1)

\* base_uint::CompareTo: most significant limb first
CompareTo(a, b) == CompareFrom(a, b, WIDTH)

Gt(a, b) == CompareTo(a, b) > 0
Lt(a, b) == CompareTo(a, b) < 0
Le(a, b) == CompareTo(a, b) <= 0

RECURSIVE AddFrom(_, _, _, _)
AddFrom(a, b, i, carry) ==
    IF i > WIDTH THEN <<>>
    ELSE LET s == a[i] + b[i] + carry
         IN  <<s % 256>> \o AddFrom(a, b, i + 1, s \div 256)

\* base_uint::operator+=: sum modulo 2^256
Add(a, b) == AddFrom(a, b, 1, 0)

RECURSIVE MulFrom(_, _, _, _)
MulFrom(a, m, i, carry) ==
    IF i > WIDTH THEN <<>>
    ELSE LET p == a[i] * m + carry
         IN  <<p % 256>> \o MulFrom(a, m, i + 1, p \div 256)

\* base_uint::operator*=(uint32_t): product modulo 2^256.  Every multiplier
\* of pow.cpp is an int64_t that the overload converts to uint32_t; the
\* multipliers of the model are all in 0..2^22, where that conversion is
\* the identity.
Mul(a, m) == MulFrom(a, m, 1, 0)

RECURSIVE DivFrom(_, _, _, _)
DivFrom(a, d, i, rem) ==
    IF i = 0 THEN <<>>
    ELSE LET cur == rem * 256 + a[i]
         IN  <<cur \div d>> \o DivFrom(a, d, i - 1, cur % d)

\* base_uint::operator/=: truncating quotient by a divisor 0 < d < 2^22.
\* The long division yields the quotient's bytes most significant first.
Div(a, d) ==
    LET q == DivFrom(a, d, WIDTH, 0)
    IN  [j \in 1..WIDTH |-> q[WIDTH + 1 - j]]

\* operator<<= and operator>>= by a whole number of bytes
ShiftLeftBytes(a, n) == [i \in 1..WIDTH |-> IF i - n >= 1 THEN a[i - n] ELSE 0]
ShiftRightBytes(a, n) == [i \in 1..WIDTH |-> IF i + n <= WIDTH THEN a[i + n] ELSE 0]

RECURSIVE TopByte(_, _)
TopByte(a, i) == IF i = 0 THEN 0 ELSE IF a[i] # 0 THEN i ELSE TopByte(a, i - 1)

\* (bits() + 7) / 8: the number of significant bytes
SizeBytes(a) == TopByte(a, WIDTH)

\* GetLow64() of a value below 2^24
Low24(a) == a[1] + 256 * a[2] + 65536 * a[3]

Min256(a, b) == IF Gt(a, b) THEN b ELSE a

\* ------------------------------------------------------------------------
\* Compact-target codec
\* ------------------------------------------------------------------------
Compact(e, m) == [exp |-> e, mant |-> m]

\* arith_uint256::SetCompact(nCompact, &fNegative, &fOverflow)
SetCompact(nBits) ==
    LET nSize == nBits.exp
        nWord0 == nBits.mant % 8388608
        nWord == IF nSize <= 3 THEN nWord0 \div (256^(3 - nSize)) ELSE nWord0
        v == IF nSize <= 3 THEN FromInt(nWord)
             ELSE ShiftLeftBytes(FromInt(nWord), nSize - 3)
    IN  [value |-> v,
         fNegative |-> (nWord # 0 /\ nBits.mant >= 8388608),
         fOverflow |-> (nWord # 0 /\ (\/ nSize > 34
                                      \/ (nWord > 255 /\ nSize > 33)
                                      \/ (nWord > 65535 /\ nSize > 32)))]

Decode(nBits) == SetCompact(nBits).value

\* arith_uint256::GetCompact()
GetCompact(a) ==
    LET nSize == SizeBytes(a)
        nCompact == IF nSize <= 3 THEN Low24(a) * (256^(3 - nSize))
                    ELSE Low24(ShiftRightBytes(a, nSize - 3))
    IN  IF nCompact >= 8388608
        THEN Compact(nSize + 1, nCompact \div 256)
        ELSE Compact(nSize, nCompact)


\* ------------------------------------------------------------------------
\* Consensus parameters and the header chain
\* ------------------------------------------------------------------------
\* 2^224 - 1, the 0x00000000ffff...ff power limit
PowLimit224 == [i \in 1..WIDTH |-> IF i <= 28 THEN 255 ELSE 0]

\* 2^219 - 1: 0x0000000007ff...ff, a limit whose top byte is below 0x80
PowLimit219 == [i \in 1..WIDTH |-> IF i <= 27 THEN 255 ELSE IF i = 28 THEN 7 ELSE 0]

BaseParams ==
    [powLimit |-> PowLimit224,
     nPowTargetSpacing |-> 90,
     nLWMAAveragingWindow |-> 3,
     nPowTargetTimespan |-> 360,
     switchLWMAblock |-> 4,
     fPowAllowMinDifficultyBlocks |-> FALSE,
     fPowNoRetargeting |-> FALSE,
     enforce_BIP94 |-> FALSE]

\* The parameter sets the model is checked for
ParamSets ==
    { BaseParams,
      [BaseParams EXCEPT !.switchLWMAblock = 3, !.powLimit = PowLimit219],
      [BaseParams EXCEPT !.fPowNoRetargeting = TRUE],
      [BaseParams EXCEPT !.fPowAllowMinDifficultyBlocks = TRUE],
      [BaseParams EXCEPT !.enforce_BIP94 = TRUE, !.switchLWMAblock = 5] }

\* Consensus::Params::DifficultyAdjustmentInterval()
DifficultyAdjustmentInterval(p) == p.nPowTargetTimespan \div p.nPowTargetSpacing

\* A header chain is a sequence of headers [nTime, nBits]; the header at
\* height h is chain[h + 1] and pindexLast is the last one.
GetAncestor(c, h) == c[h + 1]
Tip(c) == c[Len(c)]
TipHeight(c) == Len(c) - 1

Genesis(p) == [nTime |-> 1000, nBits |-> GetCompact(p.powLimit)]

\* ------------------------------------------------------------------------
\* Legacy periodic retarget
\* ------------------------------------------------------------------------
\* CalculateNextWorkRequired with the lower clamp at half the target timespan
CalculateNextWorkRequired_HalfClamp(c, nFirstBlockTime, p) ==
    IF p.fPowNoRetargeting THEN Tip(c).nBits
    ELSE
      LET span0 == Tip(c).nTime - nFirstBlockTime
          span1 == IF span0 < p.nPowTargetTimespan \div 2
                   THEN p.nPowTargetTimespan \div 2 ELSE span0
          nActualTimespan == IF span1 > p.nPowTargetTimespan * 4
                             THEN p.nPowTargetTimespan * 4 ELSE span1
          nHeightFirst == TipHeight(c) - (DifficultyAdjustmentInterval(p) - 1)
          base == IF p.enforce_BIP94
                  THEN Decode(GetAncestor(c, nHeightFirst).nBits)
                  ELSE Decode(Tip(c).nBits)
          bnNew == Div(Mul(base, nActualTimespan), p.nPowTargetTimespan)
      IN  GetCompact(Min256(bnNew, p.powLimit))

\* CalculateNextWorkRequired(pindexLast, nFirstBlockTime, params)
CalculateNextWorkRequired(c, nFirstBlockTime, p) ==
    IF p.fPowNoRetargeting THEN Tip(c).nBits
    ELSE
      LET span0 == Tip(c).nTime - nFirstBlockTime
          span1 == IF span0 < p.nPowTargetTimespan \div 4
                   THEN p.nPowTargetTimespan \div 4 ELSE span0
          nActualTimespan == IF span1 > p.nPowTargetTimespan * 4
                             THEN p.nPowTargetTimespan * 4 ELSE span1
          nHeightFirst == TipHeight(c) - (DifficultyAdjustmentInterval(p) - 1)
          base == IF p.enforce_BIP94
                  THEN Decode(GetAncestor(c, nHeightFirst).nBits)
                  ELSE Decode(Tip(c).nBits)
          bnNew == Div(Mul(base, nActualTimespan), p.nPowTargetTimespan)
      IN  GetCompact(Min256(bnNew, p.powLimit))

\* The backward walk over min-difficulty headers (pow.cpp lines 109-113)
RECURSIVE LastNonSpecial(_, _, _)
LastNonSpecial(c, h, p) ==
    IF /\ h > 0
       /\ h % DifficultyAdjustmentInterval(p) # 0
       /\ GetAncestor(c, h).nBits = GetCompact(p.powLimit)
    THEN LastNonSpecial(c, h - 1, p)
    ELSE GetAncestor(c, h).nBits

\* BitcoinGetNextWorkRequired(pindexLast, pblock, params)
BitcoinGetNextWorkRequired(c, blockTime, p) ==
    IF (TipHeight(c) + 1) % DifficultyAdjustmentInterval(p) # 0
    THEN IF p.fPowAllowMinDifficultyBlocks
         THEN IF blockTime > Tip(c).nTime + p.nPowTargetSpacing * 2
              THEN GetCompact(p.powLimit)
              ELSE LastNonSpecial(c, TipHeight(c), p)
         ELSE Tip(c).nBits
    ELSE LET nHeightFirst == TipHeight(c) - (DifficultyAdjustmentInterval(p) - 1)
         IN  CalculateNextWorkRequired(c, GetAncestor(c, nHeightFirst).nTime, p)

\* ------------------------------------------------------------------------
\* Transition validator and proof-of-work verifier
\* ------------------------------------------------------------------------
\* PermittedDifficultyTransition taking the height before a boundary for the
\* boundary
PermittedDifficultyTransition_NextHeight(p, height, old_nbits, new_nbits) ==
    IF p.fPowAllowMinDifficultyBlocks THEN TRUE
    ELSE IF (height + 1) % DifficultyAdjustmentInterval(p) = 0
    THEN LET smallest_timespan == p.nPowTargetTimespan \div 4
             largest_timespan == p.nPowTargetTimespan * 4
             observed_new_target == Decode(new_nbits)
             largest_difficulty_target ==
                 Min256(Div(Mul(Decode(old_nbits), largest_timespan),
                            p.nPowTargetTimespan), p.powLimit)
             maximum_new_target == Decode(GetCompact(largest_difficulty_target))
             smallest_difficulty_target ==
                 Min256(Div(Mul(Decode(old_nbits), smallest_timespan),
                            p.nPowTargetTimespan), p.powLimit)
             minimum_new_target == Decode(GetCompact(smallest_difficulty_target))
         IN  IF Lt(maximum_new_target, observed_new_target) THEN FALSE
             ELSE IF Gt(minimum_new_target, observed_new_target) THEN FALSE
             ELSE TRUE
    ELSE IF old_nbits # new_nbits THEN FALSE
    ELSE TRUE

\* PermittedDifficultyTransition rejecting an observed target equal to the
\* maximum
PermittedDifficultyTransition_StrictMax(p, height, old_nbits, new_nbits) ==
    IF p.fPowAllowMinDifficultyBlocks THEN TRUE
    ELSE IF height % DifficultyAdjustmentInterval(p) = 0
    THEN LET smallest_timespan == p.nPowTargetTimespan \div 4
             largest_timespan == p.nPowTargetTimespan * 4
             observed_new_target == Decode(new_nbits)
             largest_difficulty_target ==
                 Min256(Div(Mul(Decode(old_nbits), largest_timespan),
                            p.nPowTargetTimespan), p.powLimit)
             maximum_new_target == Decode(GetCompact(largest_difficulty_target))
             smallest_difficulty_target ==
                 Min256(Div(Mul(Decode(old_nbits), smallest_timespan),
                            p.nPowTargetTimespan), p.powLimit)
             minimum_new_target == Decode(GetCompact(smallest_difficulty_target))
         IN  IF Le(maximum_new_target, observed_new_target) THEN FALSE
             ELSE IF Gt(minimum_new_target, observed_new_target) THEN FALSE
             ELSE TRUE
    ELSE IF old_nbits # new_nbits THEN FALSE
    ELSE TRUE

\* PermittedDifficultyTransition(params, height, old_nbits, new_nbits)
PermittedDifficultyTransition(p, height, old_nbits, new_nbits) ==
    IF p.fPowAllowMinDifficultyBlocks THEN TRUE
    ELSE IF height % DifficultyAdjustmentInterval(p) = 0
    THEN LET smallest_timespan == p.nPowTargetTimespan \div 4
             largest_timespan == p.nPowTargetTimespan * 4
             observed_new_target == Decode(new_nbits)
             largest_difficulty_target ==
                 Min256(Div(Mul(Decode(old_nbits), largest_timespan),
                            p.nPowTargetTimespan), p.powLimit)
             maximum_new_target == Decode(GetCompact(largest_difficulty_target))
             smallest_difficulty_target ==
                 Min256(Div(Mul(Decode(old_nbits), smallest_timespan),
                            p.nPowTargetTimespan), p.powLimit)
             minimum_new_target == Decode(GetCompact(smallest_difficulty_target))
         IN  IF Lt(maximum_new_target, observed_new_target) THEN FALSE
             ELSE IF Gt(minimum_new_target, observed_new_target) THEN FALSE
             ELSE TRUE
    ELSE IF old_nbits # new_nbits THEN FALSE
    ELSE TRUE

\* DeriveTarget(nBits, pow_limit): [has |-> FALSE] is the empty optional
DeriveTarget(nBits, pow_limit) ==
    LET d == SetCompact(nBits)
    IN  IF d.fNegative \/ d.value = Zero256 \/ d.fOverflow \/ Gt(d.value, pow_limit)
        THEN [has |-> FALSE, target |-> Zero256]
        ELSE [has |-> TRUE, target |-> d.value]

\* CheckProofOfWorkImpl rejecting a hash equal to the target
CheckProofOfWorkImpl_Exclusive(hash, nBits, p) ==
    LET bnTarget == DeriveTarget(nBits, p.powLimit)
    IN  IF ~bnTarget.has THEN FALSE
        ELSE IF ~Lt(hash, bnTarget.target) THEN FALSE
        ELSE TRUE

\* CheckProofOfWorkImpl(hash, nBits, params)
CheckProofOfWorkImpl(hash, nBits, p) ==
    LET bnTarget == DeriveTarget(nBits, p.powLimit)
    IN  IF ~bnTarget.has THEN FALSE
        ELSE IF Gt(hash, bnTarget.target) THEN FALSE
        ELSE TRUE

\* CheckProofOfWork(hash, nBits, params); hash.data()[31] is the most
\* significant byte
CheckProofOfWork(fuzzing, hash, nBits, p) ==
    IF fuzzing THEN hash[WIDTH] < 128
    ELSE CheckProofOfWorkImpl(hash, nBits, p)

\* ------------------------------------------------------------------------
\* Weighted moving-average retarget: the pieces of GetNextWorkRequired
\* ------------------------------------------------------------------------
\* The dispatch keeping the legacy algorithm one height longer
Algorithm_Late(height, p) ==
    IF (height + 1) < p.nLWMAAveragingWindow THEN "bootstrap"
    ELSE IF height <= p.switchLWMAblock THEN "legacy"
    ELSE "lwma"

\* Dispatch of GetNextWorkRequired (lines 30-37)
Algorithm(height, p) ==
    IF (height + 1) < p.nLWMAAveragingWindow THEN "bootstrap"
    ELSE IF height < p.switchLWMAblock THEN "legacy"
    ELSE "lwma"

\* const int64_t k = N * (N + 1) * T / 2
NormK(p) ==
    (p.nLWMAAveragingWindow * (p.nLWMAAveragingWindow + 1) * p.nPowTargetSpacing) \div 2

\* Height of the header whose time seeds previousTimestamp (line 48)
SeedHeight(height, p) == height - p.nLWMAAveragingWindow + 1

\* thisTimestamp keeping a block time equal to the previous timestamp
EffectiveTimestamp_Equal(blockTime, prevTimestamp) ==
    IF blockTime >= prevTimestamp THEN blockTime ELSE prevTimestamp + 1

\* thisTimestamp (lines 58-60)
EffectiveTimestamp(blockTime, prevTimestamp) ==
    IF blockTime > prevTimestamp THEN blockTime ELSE prevTimestamp + 1

\* The solve-time clamp (lines 63-70)
ClampSolveTime(st, T) ==
    LET minSolveTime == T \div 6
        maxSolveTime == 6 * T
    IN  IF st < minSolveTime THEN minSolveTime
        ELSE IF st > maxSolveTime THEN maxSolveTime
        ELSE st

EasingTarget(prevTarget) == Div(Mul(prevTarget, 6), 5)
TighteningTarget(prevTarget) == Div(Mul(prevTarget, 2), 3)

\* The ratchet without the easing ceiling
Ratchet_NoEasing(avgTarget, powLimit, easing, tightening) ==
    IF Gt(avgTarget, powLimit) THEN powLimit
    ELSE IF Lt(avgTarget, tightening) THEN tightening
    ELSE avgTarget

\* The ratchet (lines 82-88)
Ratchet(avgTarget, powLimit, easing, tightening) ==
    IF Gt(avgTarget, powLimit) THEN powLimit
    ELSE IF Gt(avgTarget, easing) THEN easing
    ELSE IF Lt(avgTarget, tightening) THEN tightening
    ELSE avgTarget

\* ------------------------------------------------------------------------
\* State
\* ------------------------------------------------------------------------
MaxHeight == 6

VARIABLES
    params,             \* the Consensus::Params of the run
    chain,              \* the header chain; pIndexLast is its last header
    pc,                 \* "idle", "loop" (inside the for loop), "done"
    candTime,           \* pBlock->GetBlockTime() of the candidate header
    algo,               \* the branch GetNextWorkRequired took
    i,                  \* loop variable i
    weight,             \* loop variable weight
    previousTimestamp,  \* running previous effective timestamp
    thisTimestamp,      \* thisTimestamp of the last iteration
    solveTime0,         \* solveTime of the last iteration before the clamp
    solveTime,          \* solveTime of the last iteration after the clamp
    sumTarget,          \* the weighted sum
    nextTarget,         \* nextTarget after the ratchet
    result,             \* the bits GetNextWorkRequired returned
    G_FUZZING,          \* the build's fuzz switch
    call                \* the last direct call and its return value

vars == <<params, chain, pc, candTime, algo, i, weight, previousTimestamp,
          thisTimestamp, solveTime0, solveTime, sumTarget, nextTarget, result,
          G_FUZZING, call>>

loopVars == <<i, weight, previousTimestamp, thisTimestamp, solveTime0,
              solveTime, sumTarget>>

NoCall == [op |-> "none"]
NoBits == Compact(0, 0)

Idle ==
    /\ pc = "idle" /\ candTime = 0 /\ algo = "none"
    /\ i = 0 /\ weight = 0 /\ previousTimestamp = 0 /\ thisTimestamp = 0
    /\ solveTime0 = 0 /\ solveTime = 0
    /\ sumTarget = Zero256 /\ nextTarget = Zero256 /\ result = NoBits

Init ==
    /\ params \in ParamSets
    /\ chain = <<Genesis(params)>>
    /\ Idle
    /\ G_FUZZING = FALSE
    /\ call = NoCall

\* Offsets of a candidate header's time from its predecessor's
Deltas(p) == { -p.nPowTargetSpacing, p.nPowTargetSpacing, 7 * p.nPowTargetSpacing }

\* ------------------------------------------------------------------------
\* GetNextWorkRequired
\* ------------------------------------------------------------------------
\* Entry up to the loop (lines 15-53); the bootstrap and legacy branches
\* return here.
GetNextWorkRequired(t) ==
    /\ pc = "idle"
    /\ Len(chain) <= MaxHeight
    /\ t >= 0
    /\ candTime' = t
    /\ LET height == TipHeight(chain)
           a == Algorithm(height, params)
       IN  /\ algo' = a
           /\ IF a = "bootstrap"
              THEN /\ result' = GetCompact(params.powLimit)
                   /\ pc' = "done"
                   /\ UNCHANGED loopVars
              ELSE IF a = "legacy"
              THEN /\ result' = BitcoinGetNextWorkRequired(chain, t, params)
                   /\ pc' = "done"
                   /\ UNCHANGED loopVars
              ELSE /\ previousTimestamp' =
                          GetAncestor(chain, SeedHeight(height, params)).nTime
                   /\ sumTarget' = Zero256
                   /\ weight' = 1
                   /\ i' = height - params.nLWMAAveragingWindow + 1
                   /\ pc' = "loop"
                   /\ UNCHANGED <<thisTimestamp, solveTime0, solveTime, result>>
    /\ UNCHANGED <<params, chain, nextTarget, G_FUZZING, call>>

\* One iteration of the for loop (lines 55-78)
LoopBody ==
    /\ pc = "loop"
    /\ i <= TipHeight(chain)
    /\ LET block == GetAncestor(chain, i)
           ts == EffectiveTimestamp(block.nTime, previousTimestamp)
           st == ts - previousTimestamp
           clamped == ClampSolveTime(st, params.nPowTargetSpacing)
       IN  /\ thisTimestamp' = ts
           /\ solveTime0' = st
           /\ solveTime' = clamped
           /\ previousTimestamp' = ts
           /\ sumTarget' = Add(sumTarget, Mul(Mul(Decode(block.nBits), clamped), weight))
    /\ i' = i + 1
    /\ weight' = weight + 1
    /\ UNCHANGED <<params, chain, pc, candTime, algo, nextTarget, result,
                   G_FUZZING, call>>

\* After the loop (lines 80-90)
LoopExit ==
    /\ pc = "loop"
    /\ i > TipHeight(chain)
    /\ LET prevTarget == Decode(Tip(chain).nBits)
           t == Ratchet(Div(sumTarget, NormK(params)), params.powLimit,
                        EasingTarget(prevTarget), TighteningTarget(prevTarget))
       IN  /\ nextTarget' = t
           /\ result' = GetCompact(t)
    /\ pc' = "done"
    /\ UNCHANGED <<params, chain, candTime, algo, loopVars, G_FUZZING, call>>

\* The caller connects the candidate header carrying the required bits
ConnectBlock ==
    /\ pc = "done"
    /\ chain' = Append(chain, [nTime |-> candTime, nBits |-> result])
    /\ pc' = "idle" /\ candTime' = 0 /\ algo' = "none"
    /\ i' = 0 /\ weight' = 0 /\ previousTimestamp' = 0 /\ thisTimestamp' = 0
    /\ solveTime0' = 0 /\ solveTime' = 0
    /\ sumTarget' = Zero256 /\ nextTarget' = Zero256 /\ result' = NoBits
    /\ UNCHANGED <<params, G_FUZZING, call>>

Next ==
    \/ \E d \in Deltas(params) : GetNextWorkRequired(Tip(chain).nTime + d)
    \/ LoopBody
    \/ LoopExit
    \/ ConnectBlock

Spec == Init /\ [][Next]_vars

\* ------------------------------------------------------------------------
\* Direct calls of the validator, the verifier and the legacy retarget
\* ------------------------------------------------------------------------
\* Compact words offered to the calls: the encoded power limit, valid
\* targets, a zero mantissa, a negative word, overflowed words and words
\* above the power limit.
BitsInputs(p) ==
    { GetCompact(p.powLimit),
      Compact(27, 1193046),            \* 0x1b123456
      Compact(28, 30840),              \* 0x1c007878, same exponent as the limit
      Compact(3, 5),                   \* 0x03000005
      Compact(28, 0),                  \* zero mantissa
      Compact(27, 8388608 + 4660),     \* 0x1b801234, sign bit set
      Compact(34, 65536),              \* 0x22010000, overflow
      Compact(30, 65535),              \* 0x1e00ffff, above the limit
      Compact(29, 6684672) }           \* 0x1d660000, above the limit

MaxHash == [j \in 1..WIDTH |-> 255]

\* Hashes offered against bits b: the decoded target, its neighbours and
\* the extremes
HashInputs(b) ==
    LET t == Decode(b)
    IN  { t, Add(t, FromInt(1)), Add(t, MaxHash), Zero256, MaxHash,
          FromInt(1) }

\* Header chains of one adjustment interval handed to the legacy retarget
SampleChains(p) ==
    { [h \in 1..DifficultyAdjustmentInterval(p) |->
          [nTime |-> 1000 + (h - 1) * p.nPowTargetSpacing,
           nBits |-> IF h = DifficultyAdjustmentInterval(p) THEN b
                     ELSE GetCompact(p.powLimit)]]
      : b \in { GetCompact(p.powLimit), Compact(27, 1193046) } }

\* Actual timespans offered to the legacy retarget
SpanInputs(p) ==
    { -p.nPowTargetSpacing, 0, 1,
      p.nPowTargetTimespan \div 4 - 1, p.nPowTargetTimespan \div 4,
      p.nPowTargetTimespan \div 4 + 1, p.nPowTargetTimespan,
      p.nPowTargetTimespan * 4 - 1, p.nPowTargetTimespan * 4,
      p.nPowTargetTimespan * 4 + 1, 86400 }

InitCalls ==
    /\ params \in ParamSets
    /\ chain \in SampleChains(params)
    /\ Idle
    /\ G_FUZZING \in BOOLEAN
    /\ call = NoCall

chainVars == <<params, chain, pc, candTime, algo, i, weight, previousTimestamp,
               thisTimestamp, solveTime0, solveTime, sumTarget, nextTarget,
               result, G_FUZZING>>

CallCheckProofOfWork(hash, nBits) ==
    /\ call = NoCall
    /\ call' = [op |-> "CheckProofOfWork", hash |-> hash, nBits |-> nBits,
                ret |-> CheckProofOfWork(G_FUZZING, hash, nBits, params)]
    /\ UNCHANGED chainVars

CallPermittedDifficultyTransition(height, old_nbits, new_nbits) ==
    /\ call = NoCall
    /\ call' = [op |-> "PermittedDifficultyTransition", height |-> height,
                old_nbits |-> old_nbits, new_nbits |-> new_nbits,
                ret |-> PermittedDifficultyTransition(params, height,
                                                      old_nbits, new_nbits)]
    /\ UNCHANGED chainVars

CallCalculateNextWorkRequired(nFirstBlockTime) ==
    /\ call = NoCall
    /\ call' = [op |-> "CalculateNextWorkRequired",
                nFirstBlockTime |-> nFirstBlockTime,
                ret |-> CalculateNextWorkRequired(chain, nFirstBlockTime, params)]
    /\ UNCHANGED chainVars

NextCalls ==
    \/ \E b \in BitsInputs(params) : \E h \in HashInputs(b) :
           CallCheckProofOfWork(h, b)
    \/ \E height \in 0..MaxHeight : \E o \in BitsInputs(params), n \in BitsInputs(params) :
           CallPermittedDifficultyTransition(height, o, n)
    \/ \E span \in SpanInputs(params) :
           CallCalculateNextWorkRequired(Tip(chain).nTime - span)

SpecCalls == InitCalls /\ [][NextCalls]_vars

\* ------------------------------------------------------------------------
\* The moving-average retarget over arbitrary windows
\* ------------------------------------------------------------------------
\* Targets carried by the window's headers, all at most the power limit
WindowBits(p) == { GetCompact(p.powLimit), Compact(27, 1193046), Compact(28, 30840) }

\* Chains whose tip is at the switch height: the headers before the window
\* are on schedule at the power limit, the N window headers carry any of the
\* window targets and any of the time offsets.
RECURSIVE WindowChains(_, _)
WindowChains(p, len) ==
    IF len <= p.switchLWMAblock + 1 - p.nLWMAAveragingWindow
    THEN { [h \in 1..len |-> [nTime |-> 1000 + (h - 1) * p.nPowTargetSpacing,
                              nBits |-> GetCompact(p.powLimit)]] }
    ELSE { Append(c, [nTime |-> Tip(c).nTime + d, nBits |-> b]) :
              c \in WindowChains(p, len - 1),
              d \in Deltas(p), b \in WindowBits(p) }

InitWindow ==
    /\ params \in ParamSets
    /\ chain \in WindowChains(params, params.switchLWMAblock + 1)
    /\ Idle
    /\ G_FUZZING = FALSE
    /\ call = NoCall

NextWindow ==
    \/ GetNextWorkRequired(Tip(chain).nTime + params.nPowTargetSpacing)
    \/ LoopBody
    \/ LoopExit

SpecWindow == InitWindow /\ [][NextWindow]_vars

\* ========================================================================
\* Properties
\* ========================================================================
Height == Len(chain)                    \* height of the block being computed
Interval == DifficultyAdjustmentInterval(params)
Returned == pc = "done"
LwmaReturned == pc = "done" /\ algo = "lwma"

\* ---- C1 -----------------------------------------------------------------
CheckCall == call.op = "CheckProofOfWork" /\ ~G_FUZZING

ValidBits(nBits, p) ==
    LET d == SetCompact(nBits)
    IN  /\ ~d.fNegative
        /\ d.value # Zero256
        /\ ~d.fOverflow
        /\ Le(d.value, p.powLimit)

\* C1: with the fuzz bypass off, checkProofOfWork returns true exactly when
\* the bits decode to a target that is not negative, not zero, not overflowed
\* and not above the power limit and hash <= target; for a valid target T it
\* returns true for hash = T and false for hash = T + 1, and it returns false
\* whenever deriveTarget yields no target.
C1_CheckProofOfWork ==
    CheckCall =>
        LET T == Decode(call.nBits)
            valid == ValidBits(call.nBits, params)
        IN  /\ call.ret = (valid /\ Le(call.hash, T))
            /\ (valid /\ call.hash = T => call.ret = TRUE)
            /\ (valid /\ call.hash = Add(T, FromInt(1)) => call.ret = FALSE)
            /\ (~DeriveTarget(call.nBits, params.powLimit).has => call.ret = FALSE)

C1_Witness ==
    /\ CheckCall
    /\ ValidBits(call.nBits, params)
    /\ call.hash = Decode(call.nBits)
    /\ call.ret = TRUE

\* ---- C2 -----------------------------------------------------------------
\* C2: the bits nextRequiredBits returns for the next block are accepted by
\* isPermittedTransition(params, height, bits(last), returned bits), at every
\* height of a well-formed chain, in the legacy and the moving-average era.
C2_LegitimateBitsPermitted ==
    Returned => PermittedDifficultyTransition(params, Height, Tip(chain).nBits, result)

\* ---- C3 -----------------------------------------------------------------
\* The headers of the last full adjustment interval, and the candidate, are
\* each exactly the target spacing after their predecessor
OnScheduleInterval ==
    /\ Len(chain) >= Interval
    /\ \A h \in (TipHeight(chain) - (Interval - 1))..TipHeight(chain) :
          h > 0 => GetAncestor(chain, h).nTime
                      = GetAncestor(chain, h - 1).nTime + params.nPowTargetSpacing
    /\ candTime = Tip(chain).nTime + params.nPowTargetSpacing

\* C3: on a legacy-era chain whose last full adjustment interval is exactly
\* on schedule, nextRequiredBits returns the previous block's bits, also when
\* the next block is at an adjustment-interval boundary.
C3_OnScheduleKeepsBits ==
    (Returned /\ algo = "legacy" /\ OnScheduleInterval) => result = Tip(chain).nBits

\* ---- C4 -----------------------------------------------------------------
PrevTarget == Decode(Tip(chain).nBits)
Average == Div(sumTarget, NormK(params))

\* C4 as stated: the target encoded as the moving-average result is never
\* above previousTarget*6/5 and never above the power limit.
C4_MostRestrictive ==
    LwmaReturned =>
        /\ Le(nextTarget, EasingTarget(PrevTarget))
        /\ Le(nextTarget, params.powLimit)

\* C4 amended: the target encoded as the moving-average result is never
\* above the power limit, and it is never above previousTarget*6/5 when the
\* weighted average is at most the power limit.
C4_PowerLimitFirst ==
    LwmaReturned =>
        /\ Le(nextTarget, params.powLimit)
        /\ (Le(Average, params.powLimit) => Le(nextTarget, EasingTarget(PrevTarget)))

C4_Witness ==
    /\ LwmaReturned
    /\ Le(Average, params.powLimit)
    /\ Gt(Average, EasingTarget(PrevTarget))
    /\ nextTarget = EasingTarget(PrevTarget)

\* ---- C5 -----------------------------------------------------------------
Dispatched == pc \in {"loop", "done"} /\ Height >= params.nLWMAAveragingWindow

\* C5 as stated: past the bootstrap window the bits of the block at height h
\* come from the moving average if h >= switch height and from the legacy
\* algorithm if h < switch height.
C5_SwitchIsFirstLwmaHeight ==
    Dispatched =>
        /\ (Height >= params.switchLWMAblock => algo = "lwma")
        /\ (Height < params.switchLWMAblock => algo = "legacy")

\* C5 amended: past the bootstrap window the bits of the block at height h
\* come from the moving average if h > switch height (the previous block is
\* at or above it) and from the legacy algorithm if h <= switch height.
C5_SwitchIsLastLegacyHeight ==
    Dispatched =>
        /\ (Height > params.switchLWMAblock => algo = "lwma")
        /\ (Height <= params.switchLWMAblock => algo = "legacy")

C5_Witness ==
    /\ Dispatched
    /\ Height = params.switchLWMAblock
    /\ algo = "legacy"

\* ---- C6 -----------------------------------------------------------------
PermittedCall == call.op = "PermittedDifficultyTransition"

OffBoundaryChange ==
    /\ PermittedCall
    /\ call.height % Interval # 0
    /\ call.old_nbits # call.new_nbits

\* C6 as stated: for every parameter set, a bits change at a height that is
\* not a multiple of the adjustment interval is rejected.
C6_RejectsOffBoundaryChange ==
    OffBoundaryChange => call.ret = FALSE

\* C6 amended: for every parameter set with allow-min-difficulty off, a bits
\* change at a height that is not a multiple of the adjustment interval is
\* rejected.
C6_RejectsOffBoundaryChangeUnlessMinDifficulty ==
    (OffBoundaryChange /\ ~params.fPowAllowMinDifficultyBlocks) => call.ret = FALSE

C6_Witness ==
    /\ OffBoundaryChange
    /\ ~params.fPowAllowMinDifficultyBlocks
    /\ call.ret = FALSE

\* ---- C7 -----------------------------------------------------------------
UnchangedBits == PermittedCall /\ call.old_nbits = call.new_nbits

\* C7 as stated: unchanged bits are accepted at every height, for every bits
\* value.
C7_AcceptsUnchangedBits ==
    UnchangedBits => call.ret = TRUE

\* C7 amended: unchanged bits are accepted at every height, for every bits
\* value whose decoded target is at most the power limit.
C7_AcceptsUnchangedBitsWithinLimit ==
    (UnchangedBits /\ Le(Decode(call.old_nbits), params.powLimit)) => call.ret = TRUE

C7_Witness ==
    /\ UnchangedBits
    /\ ~params.fPowAllowMinDifficultyBlocks
    /\ call.height % Interval = 0
    /\ call.old_nbits = GetCompact(params.powLimit)
    /\ call.ret = TRUE

\* ---- C8 -----------------------------------------------------------------
CalculateCall == call.op = "CalculateNextWorkRequired" /\ ~params.fPowNoRetargeting

ActualSpan == Tip(chain).nTime - call.nFirstBlockTime

BaseTarget ==
    IF params.enforce_BIP94
    THEN Decode(GetAncestor(chain, TipHeight(chain) - (Interval - 1)).nBits)
    ELSE Decode(Tip(chain).nBits)

Scaled(span) ==
    GetCompact(Min256(Div(Mul(BaseTarget, span), params.nPowTargetTimespan),
                      params.powLimit))

\* C8: with no-retargeting off, an actual timespan below targetTimespan/4
\* (negative ones included) yields encode(min(base*(targetTimespan/4)/
\* targetTimespan, powLimit)) and one above targetTimespan*4 yields
\* encode(min(base*(targetTimespan*4)/targetTimespan, powLimit)).
C8_TimespanClamped ==
    CalculateCall =>
        /\ (ActualSpan < params.nPowTargetTimespan \div 4
               => call.ret = Scaled(params.nPowTargetTimespan \div 4))
        /\ (ActualSpan > params.nPowTargetTimespan * 4
               => call.ret = Scaled(params.nPowTargetTimespan * 4))

C8_Witness ==
    /\ CalculateCall
    /\ ActualSpan = 1
    /\ call.ret = Scaled(params.nPowTargetTimespan \div 4)
    /\ call.ret # Scaled(1)

\* ---- C9 -----------------------------------------------------------------
Iterated == (pc = "loop" /\ weight > 1) \/ LwmaReturned

\* The block of the last iteration and the running previous timestamp it met
IterBlockTime == GetAncestor(chain, i - 1).nTime
PrevBefore == thisTimestamp - solveTime0

\* C9: a window block whose raw timestamp does not exceed the running
\* previous effective timestamp is treated as previous + 1 and its solve time
\* before the clamp is exactly 1; every effective timestamp exceeds the one
\* before it and every solve time before the clamp is at least 1.
C9_MonotonicTimestamps ==
    Iterated =>
        /\ solveTime0 >= 1
        /\ thisTimestamp > PrevBefore
        /\ previousTimestamp = thisTimestamp
        /\ (IterBlockTime <= PrevBefore
               => thisTimestamp = PrevBefore + 1 /\ solveTime0 = 1)
        /\ (IterBlockTime > PrevBefore => thisTimestamp = IterBlockTime)

C9_Witness ==
    /\ pc = "loop" /\ weight > 2
    /\ IterBlockTime < PrevBefore
    /\ solveTime0 = 1

\* ---- C10 ----------------------------------------------------------------
WindowHeights ==
    (TipHeight(chain) - params.nLWMAAveragingWindow + 1)..TipHeight(chain)

\* All window headers carry the tip's bits, a target at most the power limit,
\* and each is exactly the target spacing after its predecessor
OnScheduleWindow ==
    /\ Le(PrevTarget, params.powLimit)
    /\ \A h \in WindowHeights :
          /\ GetAncestor(chain, h).nBits = Tip(chain).nBits
          /\ h > 0
          /\ GetAncestor(chain, h).nTime
                = GetAncestor(chain, h - 1).nTime + params.nPowTargetSpacing

\* C10: when all N window blocks carry the same bits b and every one is
\* exactly the target spacing after its predecessor, the weighted sum divided
\* by k equals the common target and nextRequiredBits returns b.
C10_OnScheduleFixedPoint ==
    (LwmaReturned /\ OnScheduleWindow) =>
        /\ Average = PrevTarget
        /\ result = Tip(chain).nBits
====
